---------------------------- MODULE Spec2Model ----------------------------
(***************************************************************************)
(* Model of src/script.js: the IRT item-characteristic-curve functions     *)
(* (logistic, icc1PL .. icc4PL), the shared sample grid window.thetaGrid,  *)
(* and the slider/chart binding built by setupModel for the four model     *)
(* families 1PL, 2PL, 3PL and 4PL.                                         *)
(*                                                                         *)
(* Numbers are exact integers in fixed units:                              *)
(*   ability and difficulty (theta, b, grid points) : 1/ThetaDen = 1/3990  *)
(*       (0.1 = 399 units, one grid step 8/399 = 80 units)                 *)
(*   discrimination a                               : 1/ADen    = 1/20     *)
(*   guessing c and upper asymptote d               : 1/ProbDen = 1e-6     *)
(*   argument of logistic, a*(theta-b)              : 1/XDen    = 1/79800  *)
(*   value of logistic                              : 1/LOne    = 1e-3     *)
(*   value of an ICC function (a probability)       : 1/(ProbDen*LOne)     *)
(*                                                    = 1e-9               *)
(* Math.exp is evaluated in decimal floating point with a mantissa of five *)
(* digits (tables of e^k and e^(j/40) and a second-order series), and      *)
(* logistic(x) is 1/(1+e^-x) rounded to 1e-3.                              *)
(* Strings held by the controls (input.value, textContent) are modelled by *)
(* the numbers they spell: String and parseFloat are inverse on the        *)
(* decimal slider positions.                                               *)
(***************************************************************************)
EXTENDS Integers, Sequences, FiniteSets, TLC

\* ------------------------------------------------------------------ units
GridLen == 400
GridDen == 399
GridSpan == 8
ThetaLo == -4
StepDen == 10
ThetaDen == StepDen * GridDen
ADen == 20
ProbDen == 1000000
Eps == 1
XDen == ThetaDen * ADen
LOne == 1000
EOne == 10000

Max(x, y) == IF x >= y THEN x ELSE y
Min(x, y) == IF x <= y THEN x ELSE y

\* ------------------------------------------------------------ Math.exp
\* A value of Math.exp is held as a decimal floating-point number
\* [m |-> mantissa, e |-> exponent], standing for m * 10^e, with a mantissa of
\* five digits (relative error below 1e-4 over the arguments [-150, 150]; the
\* sliders produce arguments in [-21, 21]).
\* e^y = e^k * e^(j/40) * e^r for y = k + j/40 + r, k an integer, 0 <= j < 40
\* and 0 <= r < 1/40.
ROne == 100000
FracDen == 40
FracStep == XDen \div FracDen
KLo == -150

\* e^k for k = -150 .. 150: six-digit mantissas and their exponents
EIntMan ==
    << 717510, 195039, 530172, 144116, 391747, 106488, 289464, 786845,
    213887, 581404, 158042, 429603, 116778, 317436, 862880, 234555,
    637587, 173314, 471117, 128063, 348111, 946263, 257221, 699199,
    190062, 516642, 140438, 381750, 103770, 282077, 766765, 208428,
    566567, 154009, 418639, 113798, 309335, 840860, 228569, 621316,
    168891, 459094, 124795, 339227, 922115, 250657, 681356, 185212,
    503458, 136854, 372008, 101122, 274879, 747197, 203109, 552108,
    150079, 407956, 110894, 301441, 819401, 222736, 605460, 164581,
    447378, 121610, 330570, 898583, 244260, 663968, 180485, 490609,
    133361, 362514, 985415, 267864, 728129, 197926, 538019, 146249,
    397545, 108064, 293748, 798490, 217052, 590009, 160381, 435961,
    118506, 322134, 875651, 238027, 647023, 175879, 478089, 129958,
    353263, 960268, 261028, 709547, 192875, 524289, 142516, 387400,
    105306, 286252, 778113, 211513, 574952, 156288, 424835, 115482,
    313913, 853305, 231952, 630512, 171391, 465889, 126642, 344248,
    935762, 254367, 691440, 187953, 510909, 138879, 377513, 102619,
    278947, 758256, 206115, 560280, 152300, 413994, 112535, 305902,
    831529, 226033, 614421, 167017, 453999, 123410, 335463, 911882,
    247875, 673795, 183156, 497871, 135335, 367879, 100000, 271828,
    738906, 200855, 545982, 148413, 403429, 109663, 298096, 810308,
    220265, 598741, 162755, 442413, 120260, 326902, 888611, 241550,
    656600, 178482, 485165, 131882, 358491, 974480, 264891, 720049,
    195730, 532048, 144626, 393133, 106865, 290488, 789630, 214644,
    583462, 158601, 431123, 117191, 318559, 865934, 235385, 639843,
    173927, 472784, 128516, 349343, 949612, 258131, 701674, 190735,
    518471, 140935, 383101, 104138, 283075, 769479, 209166, 568572,
    154554, 420121, 114201, 310430, 843836, 229378, 623515, 169489,
    460719, 125236, 340428, 925378, 251544, 683767, 185867, 505239,
    137338, 373324, 101480, 275851, 749842, 203828, 554062, 150610,
    409400, 111286, 302508, 822301, 223525, 607603, 165164, 448961,
    122040, 331740, 901763, 245125, 666318, 181124, 492346, 133833,
    363797, 988903, 268812, 730706, 198626, 539923, 146766, 398952,
    108446, 294788, 801316, 217820, 592097, 160949, 437504, 118926,
    323274, 878750, 238869, 649313, 176502, 479781, 130418, 354513,
    963667, 261952, 712059, 193558, 526144, 143021, 388771, 105679,
    287265, 780867, 212262, 576987, 156841, 426339, 115891, 315024,
    856325, 232773, 632743, 171997, 467537, 127090, 345466, 939074,
    255267, 693887, 188618, 512717, 139371 >>

EIntExp ==
    << -71, -70, -70, -69, -69, -68, -68, -68, -67, -67, -66, -66,
    -65, -65, -65, -64, -64, -63, -63, -62, -62, -62, -61, -61,
    -60, -60, -59, -59, -58, -58, -58, -57, -57, -56, -56, -55,
    -55, -55, -54, -54, -53, -53, -52, -52, -52, -51, -51, -50,
    -50, -49, -49, -48, -48, -48, -47, -47, -46, -46, -45, -45,
    -45, -44, -44, -43, -43, -42, -42, -42, -41, -41, -40, -40,
    -39, -39, -39, -38, -38, -37, -37, -36, -36, -35, -35, -35,
    -34, -34, -33, -33, -32, -32, -32, -31, -31, -30, -30, -29,
    -29, -29, -28, -28, -27, -27, -26, -26, -25, -25, -25, -24,
    -24, -23, -23, -22, -22, -22, -21, -21, -20, -20, -19, -19,
    -19, -18, -18, -17, -17, -16, -16, -15, -15, -15, -14, -14,
    -13, -13, -12, -12, -12, -11, -11, -10, -10, -9, -9, -9,
    -8, -8, -7, -7, -6, -6, -5, -5, -5, -4, -4, -3,
    -3, -2, -2, -2, -1, -1, 0, 0, 1, 1, 1, 2,
    2, 3, 3, 4, 4, 4, 5, 5, 6, 6, 7, 7,
    8, 8, 8, 9, 9, 10, 10, 11, 11, 11, 12, 12,
    13, 13, 14, 14, 14, 15, 15, 16, 16, 17, 17, 18,
    18, 18, 19, 19, 20, 20, 21, 21, 21, 22, 22, 23,
    23, 24, 24, 24, 25, 25, 26, 26, 27, 27, 28, 28,
    28, 29, 29, 30, 30, 31, 31, 31, 32, 32, 33, 33,
    34, 34, 34, 35, 35, 36, 36, 37, 37, 37, 38, 38,
    39, 39, 40, 40, 41, 41, 41, 42, 42, 43, 43, 44,
    44, 44, 45, 45, 46, 46, 47, 47, 47, 48, 48, 49,
    49, 50, 50, 51, 51, 51, 52, 52, 53, 53, 54, 54,
    54, 55, 55, 56, 56, 57, 57, 57, 58, 58, 59, 59,
    60 >>

EFrac ==
    << 100000, 102532, 105127, 107788, 110517, 113315, 116183, 119125,
    122140, 125232, 128403, 131653, 134986, 138403, 141907, 145499,
    149182, 152959, 156831, 160801, 164872, 169046, 173325, 177713,
    182212, 186825, 191554, 196403, 201375, 206473, 211700, 217059,
    222554, 228188, 233965, 239888, 245960, 252187, 258571, 265117 >>

\* Math.exp(y), y in 1/XDen.
\*   f  : the fraction of y, 0 <= f < 1, in 1/XDen
\*   r5 : r in 1/ROne, rounded
\*   g  : e^f in 1/ROne, e^(j/40) * (1 + r + r^2/2)
\*   mk : the mantissa of e^k
\*   p  : mk * g / 1000, the product cut to fit 32 bits
\* and the result is p rounded to a mantissa of five digits.
MathExp(y) ==
    LET f == y % XDen
        r5 == ((f % FracStep) * ROne + XDen \div 2) \div XDen
        t == EFrac[f \div FracStep + 1]
        g == t + (t * (r5 + (r5 * r5) \div (2 * ROne)) + ROne \div 2) \div ROne
        k == y \div XDen - KLo + 1
        mk == EIntMan[k]
        p == mk * (g \div 1000) + (mk * (g % 1000)) \div 1000
    IN  IF p >= 100000000
        THEN [m |-> (p + 5000) \div 10000, e |-> EIntExp[k] + 2]
        ELSE [m |-> (p + 500) \div 1000, e |-> EIntExp[k] + 1]

\* ------------------------------------------------------- the curve model
Pow10 == <<1, 10, 100, 1000, 10000, 100000>>

\* 1.0 / den for den in 1/EOne, result in 1/LOne, rounded to nearest
OneOver(den) == (LOne * EOne + den \div 2) \div den

\* 1.0 / (1.0 + x) for a floating-point x >= 0, in 1/LOne rounded to nearest.
\* s is the exponent of x counted in 1/EOne: from x = 10^5 on (s >= 5) the
\* quotient is below 0.0005 and rounds to 0; below 10^-6 * 10^5 (s < -5) x adds
\* nothing to 1.0 at 1/EOne.
OneOverOnePlus(x) ==
    LET s == x.e + 4
    IN  IF s >= 5 THEN 0
        ELSE IF s >= 0 THEN OneOver(EOne + x.m * Pow10[s + 1])
        ELSE IF s < -5 THEN OneOver(EOne)
        ELSE OneOver(EOne + (x.m + Pow10[1 - s] \div 2) \div Pow10[1 - s])

\* logistic(x) = 1.0 / (1.0 + Math.exp(-x)); x in 1/XDen, result in 1/LOne
logistic(x) == OneOverOnePlus(MathExp(-x))

\* theta, b in 1/ThetaDen; a in 1/ADen; c, d in 1/ProbDen; result in 1e-9.
\* 1PL has no discrimination: theta - b is rescaled to 1/XDen units.
icc1PL(theta, b) == ProbDen * logistic(ADen * (theta - b))

\* Faulty variant of icc2PL: logistic(a * theta - b)
icc2PLUnscaledB(theta, a, b) == ProbDen * logistic(a * theta - ADen * b)

icc2PL(theta, a, b) == ProbDen * logistic(a * (theta - b))

\* Faulty variant of icc3PL: the logistic term is not scaled by (1 - c).
icc3PLUnscaled(theta, a, b, c) ==
    c * LOne + ProbDen * logistic(a * (theta - b))

icc3PL(theta, a, b, c) == c * LOne + (ProbDen - c) * logistic(a * (theta - b))

\* ---------------------------------------------- IEEE rounding of c + (d - c)
\* Where logistic returns exactly 1.0, icc4PL is the double c + (d - c), two
\* rounded operations on the doubles nearest the decimals c and d. They are
\* carried out here on binary expansions: a number in [0, 2) is the set of
\* the positions i of its one bits, position i weighing 2^-i, i = 0 .. FBits.
FBits == 74
MantBits == 53
BitIx == 0..FBits

\* x * y modulo ProbDen for 0 <= x, y < ProbDen, by halves of three decimal
\* digits so that no product leaves the integer range
MulMod(x, y) ==
    LET mid == (x \div 1000) * (y % 1000) + (x % 1000) * (y \div 1000)
    IN  ((mid % 1000) * 1000 + (x % 1000) * (y % 1000)) % ProbDen

\* 2^i modulo ProbDen, sixteen doublings at a time
RECURSIVE Pow2Mod(_)
Pow2Mod(i) == IF i <= 16 THEN 2 ^ i ELSE MulMod(2 ^ 16, Pow2Mod(i - 16))

\* The remainder of k / ProbDen left after bit i of its binary expansion:
\* k * 2^i modulo ProbDen
DecRem(k, i) == MulMod(k % ProbDen, Pow2Mod(i))

\* The binary expansion of the decimal k / ProbDen (0 <= k <= ProbDen), cut
\* after FBits bits
DecBits(k) ==
    {i \in BitIx : IF i = 0 THEN k >= ProbDen
                   ELSE 2 * DecRem(k, i - 1) >= ProbDen}

\* x + 2^-q, for x with no bit after position q
AddUlp(x, q) ==
    LET j == CHOOSE i \in 0..q : i \notin x /\ \A h \in (i + 1)..q : h \in x
    IN  {i \in x : i < j} \cup {j}

\* Round to nearest, ties to even, at MantBits significant bits; sticky says
\* that the exact number has further bits after position FBits.
Round53(x, sticky) ==
    IF x = {} THEN x
    ELSE LET q == (CHOOSE i \in x : \A j \in x : i <= j) + MantBits - 1
         IN  IF q >= FBits THEN x
             ELSE IF (q + 1) \in x
                       /\ (sticky \/ q \in x \/ \E i \in x : i >= q + 2)
                  THEN AddUlp({i \in x : i <= q}, q)
                  ELSE {i \in x : i <= q}

Bit(x, i) == IF i \in x THEN 1 ELSE 0

\* The carry into position i in x + y: some later position generates one and
\* every position between passes it on. The borrow in x - y likewise.
Carry(x, y, i) ==
    IF \E j \in (i + 1)..FBits :
          /\ j \in x /\ j \in y
          /\ \A h \in (i + 1)..(j - 1) : h \in x \/ h \in y
    THEN 1 ELSE 0

Borrow(x, y, i) ==
    IF \E j \in (i + 1)..FBits :
          /\ j \notin x /\ j \in y
          /\ \A h \in (i + 1)..(j - 1) : h \notin x \/ h \in y
    THEN 1 ELSE 0

\* The double nearest the decimal k / ProbDen; x + y and x - y (x >= y) of
\* doubles, rounded to a double
Dbl(k) == Round53(DecBits(k), DecRem(k, FBits) # 0)

DblAdd(x, y) ==
    Round53({i \in BitIx :
                (Bit(x, i) + Bit(y, i) + Carry(x, y, i)) % 2 = 1}, FALSE)

DblSub(x, y) ==
    Round53({i \in BitIx :
                (Bit(x, i) - Bit(y, i) - Borrow(x, y, i)) % 2 = 1}, FALSE)

DblLess(x, y) ==
    \E i \in y \ x : \A j \in 0..(i - 1) : (j \in x) <=> (j \in y)

\* A d handed to icc4PL is a double given as [k |-> , sum |-> ]: k is the
\* decimal (in 1/ProbDen) it stands for. A slider value or a literal is the
\* double nearest its decimal (Dec); the d the 4PL callbacks make of c is the
\* rounded sum c + 1e-6 (SumEps), which need not be the double nearest
\* its decimal. Bits is the binary expansion of either.
Dec(k) == [k |-> k, sum |-> FALSE]
SumEps(c) == [k |-> c + Eps, sum |-> TRUE]
Bits(d) == IF d.sum THEN DblAdd(Dbl(d.k - Eps), Dbl(Eps)) ELSE Dbl(d.k)

\* c + (d - c) * 1.0 for a decimal c in [0, 1] and a double d, against the
\* double nearest d's decimal: 1 if the double computed is above it, -1 if
\* below, 0 if it is that double.
\* For d < c the difference is negative: c + (d - c) is c - (c - d).
SumOff(c, d) ==
    LET x == Bits(d)
        r == IF ~DblLess(x, Dbl(c)) THEN DblAdd(Dbl(c), DblSub(x, Dbl(c)))
             ELSE DblSub(Dbl(c), DblSub(Dbl(c), x))
    IN  IF DblLess(Dbl(d.k), r) THEN 1
        ELSE IF DblLess(r, Dbl(d.k)) THEN -1 ELSE 0

\* The least x, in 1/XDen, with Math.exp(-x) <= 2^-53: 53 ln 2 is
\* 36.7368005696771, between 2931596 / XDen and 2931597 / XDen.
OneFrom == 2931597

\* logistic(x) === 1.0: 1.0 + Math.exp(-x) rounds to 1.0, which it does for
\* Math.exp(-x) up to 2^-53 (the tie goes to the even 1.0); for anything
\* larger the sum is above 1.0 and the quotient below it.
logisticIsOne(x) == x >= OneFrom

\* c + (d - c) * logistic(a * (theta - b)), for a decimal c and a double d.
\* The value is [v |-> , off |-> ]: v in 1e-9 as for the other functions;
\* off places the double computed against the double nearest v where v is an
\* exact decimal (the logistic factor is exactly 1.0, v is d's decimal): 1
\* above it, -1 below it, 0 on it. Elsewhere v holds the value to the
\* resolution of logistic, the double is not placed and off is 0.
icc4PL(theta, a, b, c, d) ==
    LET x == a * (theta - b)
        l == logistic(x)
    IN  [v |-> c * LOne + (d.k - c) * l,
         off |-> IF logisticIsOne(x) THEN SumOff(c, d) ELSE 0]

\* ------------------------------------------------------- the sample grid
\* Faulty variant of MakeGrid: the step is 8/400, so the last point is not 4.
MakeGridOpenEnd ==
    [k \in 1..GridLen |->
        ThetaLo * ThetaDen + ((k - 1) * GridSpan * ThetaDen) \div GridLen]

\* Array.from({length: 400}, (_, i) => -4 + (i * 8 / 399)), i = 0 .. 399
MakeGrid ==
    [k \in 1..GridLen |->
        ThetaLo * ThetaDen + ((k - 1) * GridSpan * ThetaDen) \div GridDen]

\* --------------------------------------------- the setupModel calls
\* The families the script sets up (lines 154-215), in call order.
ProgramFam == {"1PL", "2PL", "3PL", "4PL"}
\* Two further parameter sets used to exercise setupModel on a set that lacks
\* difficulty ("noB": theta, a) or lacks ability ("noTheta": a, b).
HarnessFam == {"noB", "noTheta"}

\* The parameter specs {id, min, max, step, defaultValue}; an id is the pair
\* <<leading name, family suffix>>, e.g. <<"theta", "1PL">> for 'theta1PL'.
ThetaParam(m) ==
    [id |-> <<"theta", m>>, min |-> -4 * ThetaDen, max |-> 4 * ThetaDen,
     step |-> ThetaDen \div StepDen, defaultValue |-> 0]
AParam(m) ==
    [id |-> <<"a", m>>, min |-> ADen \div 10, max |-> 3 * ADen,
     step |-> ADen \div 20, defaultValue |-> ADen]
\* Faulty variant of BParam: difficulty is given ability's range.
BParamWide(m) ==
    [id |-> <<"b", m>>, min |-> -4 * ThetaDen, max |-> 4 * ThetaDen,
     step |-> ThetaDen \div StepDen, defaultValue |-> 0]

BParam(m) ==
    [id |-> <<"b", m>>, min |-> -3 * ThetaDen, max |-> 3 * ThetaDen,
     step |-> ThetaDen \div StepDen, defaultValue |-> 0]
CParam(m) ==
    [id |-> <<"c", m>>, min |-> 0, max |-> 35 * (ProbDen \div 100),
     step |-> ProbDen \div 100, defaultValue |-> 20 * (ProbDen \div 100)]
\* Faulty variant of DParam: the upper asymptote may go down to 0.30.
DParamLow(m) ==
    [id |-> <<"d", m>>, min |-> 30 * (ProbDen \div 100), max |-> ProbDen,
     step |-> ProbDen \div 100, defaultValue |-> 90 * (ProbDen \div 100)]

DParam(m) ==
    [id |-> <<"d", m>>, min |-> 65 * (ProbDen \div 100), max |-> ProbDen,
     step |-> ProbDen \div 100, defaultValue |-> 90 * (ProbDen \div 100)]

Params(m) ==
    CASE m = "1PL" -> <<ThetaParam(m), BParam(m)>>
      [] m = "2PL" -> <<ThetaParam(m), AParam(m), BParam(m)>>
      [] m = "3PL" -> <<ThetaParam(m), AParam(m), BParam(m), CParam(m)>>
      [] m = "4PL" -> <<ThetaParam(m), AParam(m), BParam(m), CParam(m), DParam(m)>>
      [] m = "noB" -> <<ThetaParam(m), AParam(m)>>
      [] m = "noTheta" -> <<AParam(m), BParam(m)>>

\* Faulty variant of ContainerOf: every call passes the first call's container.
ContainerOfFirst(m) == "plot1PL"

\* containerId of each setupModel call: the chart the binding draws into.
ContainerOf(m) ==
    CASE m = "1PL" -> "plot1PL"
      [] m = "2PL" -> "plot2PL"
      [] m = "3PL" -> "plot3PL"
      [] m = "4PL" -> "plot4PL"
      [] m = "noB" -> "plotNoB"
      [] m = "noTheta" -> "plotNoTheta"

\* The value map v is keyed by the leading name of the id (v["b"] is v.b1PL).
Names(m) == {Params(m)[i].id[1] : i \in 1..Len(Params(m))}
ParamOf(m, name) ==
    Params(m)[CHOOSE i \in 1..Len(Params(m)) : Params(m)[i].id[1] = name]

\* Math.max(d, c + 1e-6) on the doubles nearest the decimals c and d. The
\* rounded sum lies within two units in the last place of its decimal, so
\* decimals d and c + 1e-6 that differ are ordered as their doubles are; where
\* they are equal the doubles are compared.
MaxD(d, c) ==
    IF d > c + Eps THEN Dec(d)
    ELSE IF d < c + Eps THEN SumEps(c)
    ELSE IF DblLess(Dbl(d), Bits(SumEps(c))) THEN SumEps(c) ELSE Dec(d)

\* 4PL computeCurve: const d = Math.max(v.d4PL, v.c4PL + 1e-6)
CurveD(v) == MaxD(v["d"], v["c"])
\* Faulty variant of PointD: the point is computed with the slider's d.
PointDRaw(v) == Dec(v["d"])

\* 4PL computePoint: const d = Math.max(v.d4PL, v.c4PL + 1e-6)
PointD(v) == MaxD(v["d"], v["c"])

\* computeCurve callbacks: window.thetaGrid.map(t => icc(t, ...))
computeCurve(m, v, g) ==
    CASE m = "1PL" -> [k \in DOMAIN g |-> icc1PL(g[k], v["b"])]
      [] m = "2PL" -> [k \in DOMAIN g |-> icc2PL(g[k], v["a"], v["b"])]
      [] m = "3PL" -> [k \in DOMAIN g |-> icc3PL(g[k], v["a"], v["b"], v["c"])]
      [] m = "4PL" ->
            LET d == CurveD(v)
            IN  [k \in DOMAIN g |-> icc4PL(g[k], v["a"], v["b"], v["c"], d)]
      [] m = "noB" -> [k \in DOMAIN g |-> icc2PL(g[k], v["a"], 0)]
      [] m = "noTheta" -> [k \in DOMAIN g |-> icc2PL(g[k], v["a"], v["b"])]

\* computePoint callbacks: {x: v.theta, y: icc(v.theta, ...)}
computePoint(m, v) ==
    CASE m = "1PL" -> [x |-> v["theta"], y |-> icc1PL(v["theta"], v["b"])]
      [] m = "2PL" -> [x |-> v["theta"], y |-> icc2PL(v["theta"], v["a"], v["b"])]
      [] m = "3PL" ->
            [x |-> v["theta"], y |-> icc3PL(v["theta"], v["a"], v["b"], v["c"])]
      [] m = "4PL" ->
            LET d == PointD(v)
            IN  [x |-> v["theta"],
                 y |-> icc4PL(v["theta"], v["a"], v["b"], v["c"], d)]
      [] m = "noB" -> [x |-> v["theta"], y |-> icc2PL(v["theta"], v["a"], 0)]
      [] m = "noTheta" -> [x |-> 0, y |-> icc2PL(0, v["a"], v["b"])]

\* ------------------------------------------------------------- the state
VARIABLES
    models,     \* the bindings that were set up (one setupModel call each)
    thetaGrid,  \* window.thetaGrid
    value,      \* value[m][name]: input.value of each slider of binding m
    label,      \* label[m][name]: valueSpan.textContent of each slider
    locked,     \* locked[m]: lockCheckbox.checked, for the bindings that have one
    chart,      \* chart[containerId]: what Plotly shows in that container
    lastV,      \* lastV[m]: the map getValues() returned to the latest update()
    ev,         \* the event handled last
    n,          \* number of events handled so far
    probe       \* the latest direct evaluation of a curve-model function

vars == <<models, thetaGrid, value, label, locked, chart, lastV, ev, n, probe>>
uiVars == <<models, thetaGrid, value, label, locked, chart, lastV, ev, n>>

\* --------------------------------------------------------------- bounds
MaxEvents == 2

\* The positions the user drags a slider to (each on the slider's step grid
\* and within its min and max, as a range control only offers such values).
InputValues(name) ==
    CASE name = "theta" -> {-4 * ThetaDen, 2 * ThetaDen, 4 * ThetaDen}
      [] name = "b" -> {-3 * ThetaDen, ThetaDen}
      [] name = "a" -> {3 * ADen}
      [] name = "c" -> {CParam(name).max}
      [] name = "d" -> {DParam(name).min}

\* ------------------------------------------------------------ the binding
\* createFigure: the curve trace is xGrid.map(() => 0), the marker is (0, 0),
\* shapes[0] is the vertical line x0 = x1 = 0.
createFigure(g) ==
    [y |-> [k \in DOMAIN g |-> 0], mx |-> 0, my |-> 0, x0 |-> 0, x1 |-> 0]

\* Assigning to input.value of a type=range control: the control keeps the
\* nearest value on its step grid (counted from min) within [min, max].
Sanitize(p, x) ==
    LET c == Max(p.min, Min(p.max, x))
        s == p.min + ((c - p.min + p.step \div 2) \div p.step) * p.step
    IN  IF s > p.max THEN s - p.step ELSE s

\* createSlider: valueSpan.textContent = String(defaultValue);
\* input.value = String(defaultValue)
createSlider(p) ==
    [id |-> p.id, value |-> Sanitize(p, p.defaultValue), label |-> p.defaultValue]

\* id.startsWith(prefix): among the ids used, an id starts with 'theta' or
\* with 'b' exactly when that is its leading name.
StartsWith(id, prefix) == id[1] = prefix

\* sliderObjs.find(s => s.input.id.startsWith(prefix)): the leading name of
\* the first such slider, or "undefined".
FindSlider(m, prefix) ==
    LET hits == {i \in 1..Len(Params(m)) : StartsWith(Params(m)[i].id, prefix)}
    IN  IF hits = {} THEN "undefined"
        ELSE Params(m)[CHOOSE i \in hits : \A j \in hits : i <= j].id[1]

\* Faulty variant of HasLock: one of the two sliders is enough.
HasLockEither(m) ==
    FindSlider(m, "theta") # "undefined" \/ FindSlider(m, "b") # "undefined"

\* if (thetaSlider && bSlider): the binding gets a lock checkbox
HasLock(m) ==
    FindSlider(m, "theta") # "undefined" /\ FindSlider(m, "b") # "undefined"

\* Math.max(lo, Math.min(hi, x))
Clamp(lo, hi, x) == Max(lo, Min(hi, x))

\* getValues(): values[s.input.id] = parseFloat(s.input.value) for every slider
getValues(st) == [k \in DOMAIN st.value |-> st.value[k]]

\* Faulty variant of update: the vertical line is not moved.
updateNoRelayout(m, g, st) ==
    LET v == getValues(st)
        curveY == computeCurve(m, v, g)
        point == computePoint(m, v)
    IN  [st EXCEPT
            !.chart = [@ EXCEPT ![ContainerOf(m)] =
                          [y |-> curveY, mx |-> point.x, my |-> point.y,
                           x0 |-> @.x0, x1 |-> @.x1]],
            !.lastV = v,
            !.nUpdate = @ + 1]

\* update(): read the sliders, compute curve and point, restyle trace 0 and
\* trace 1 and relayout shapes[0] of the binding's container.
update(m, g, st) ==
    LET v == getValues(st)
        curveY == computeCurve(m, v, g)
        point == computePoint(m, v)
    IN  [st EXCEPT
            !.chart = [@ EXCEPT ![ContainerOf(m)] =
                          [y |-> curveY, mx |-> point.x, my |-> point.y,
                           x0 |-> point.x, x1 |-> point.x]],
            !.lastV = v,
            !.nUpdate = @ + 1]

\* The slider's own 'input' listener (createSlider):
\* valueSpan.textContent = input.value; onChange()
onInput(m, name, g, st) ==
    update(m, g, [st EXCEPT !.label = [@ EXCEPT ![name] = st.value[name]]])

\* Faulty variant of WritePartner: the partner's label is not rewritten.
WritePartnerNoLabel(m, partner, nv, st) ==
    IF st.value[partner] # nv
    THEN [st EXCEPT
            !.value = [@ EXCEPT ![partner] = Sanitize(ParamOf(m, partner), nv)]]
    ELSE st

\* Write nv into the partner slider and its label unless it already holds it.
WritePartner(m, partner, nv, st) ==
    IF st.value[partner] # nv
    THEN [st EXCEPT
            !.value = [@ EXCEPT ![partner] = Sanitize(ParamOf(m, partner), nv)],
            !.label = [@ EXCEPT ![partner] = nv]]
    ELSE st

\* Faulty variant of onThetaCapture: the lock checkbox is not consulted.
onThetaCaptureAlways(m, checked, st) ==
    WritePartner(m, "b",
        Clamp(ParamOf(m, "b").min, ParamOf(m, "b").max, st.value["theta"]), st)

\* Faulty variant of onThetaCapture: the copy goes from difficulty to ability.
onThetaCaptureReversed(m, checked, st) ==
    IF ~checked THEN st
    ELSE WritePartner(m, "theta",
            Clamp(ParamOf(m, "theta").min, ParamOf(m, "theta").max,
                  st.value["b"]), st)

\* onThetaCapture: copy ability into difficulty, clamped to difficulty's range
onThetaCapture(m, checked, st) ==
    IF ~checked THEN st
    ELSE LET t == st.value["theta"]
             bmin == ParamOf(m, "b").min
             bmax == ParamOf(m, "b").max
             nb == Clamp(bmin, bmax, t)
         IN  WritePartner(m, "b", nb, st)

\* Faulty variant of onBCapture: a difficulty change is not copied.
onBCaptureSkip(m, checked, st) == st

\* onBCapture: copy difficulty into ability, clamped to ability's range
onBCapture(m, checked, st) ==
    IF ~checked THEN st
    ELSE LET b == st.value["b"]
             tmin == ParamOf(m, "theta").min
             tmax == ParamOf(m, "theta").max
             nt == Clamp(tmin, tmax, b)
         IN  WritePartner(m, "theta", nt, st)

\* The 'input' listeners of a slider, in the order they were registered:
\* createSlider adds the slider's own listener (not capturing); setupModel
\* then adds the capturing synchronization listener to the two coupled sliders.
Listeners(m, name) ==
    <<[fn |-> "onInput", capture |-> FALSE]>> \o
    (IF HasLock(m) /\ name = FindSlider(m, "theta")
        THEN <<[fn |-> "onThetaCapture", capture |-> TRUE]>>
     ELSE IF HasLock(m) /\ name = FindSlider(m, "b")
        THEN <<[fn |-> "onBCapture", capture |-> TRUE]>>
     ELSE <<>>)

IsCapture(l) == l.capture
IsBubble(l) == ~l.capture

\* Faulty variant of DispatchOrder: the target's listeners run in the order
\* they were registered, whatever their capture flag.
DispatchOrderAsRegistered(ls) == ls

\* The order in which an event dispatched at its target invokes the target's
\* listeners: the capturing ones first, then the others, each group in
\* registration order.
DispatchOrder(ls) == SelectSeq(ls, IsCapture) \o SelectSeq(ls, IsBubble)

RunListener(l, m, name, checked, g, st) ==
    CASE l.fn = "onInput" -> onInput(m, name, g, st)
      [] l.fn = "onThetaCapture" -> onThetaCapture(m, checked, st)
      [] l.fn = "onBCapture" -> onBCapture(m, checked, st)

RECURSIVE RunAll(_, _, _, _, _, _)
RunAll(ls, m, name, checked, g, st) ==
    IF ls = <<>> THEN st
    ELSE RunAll(Tail(ls), m, name, checked, g,
                RunListener(Head(ls), m, name, checked, g, st))

\* Faulty variant of onLockChange: the handler does not test the checkbox.
onLockChangeAlways(m, checked, g, st) ==
    update(m, g, onThetaCapture(m, checked, st))

\* Faulty variant of onLockChange: the chart is redrawn before the sliders
\* are synchronized.
onLockChangeUpdateFirst(m, checked, g, st) ==
    IF checked THEN onThetaCapture(m, checked, update(m, g, st)) ELSE st

\* The lock checkbox's 'change' listener:
\* if (lockCheckbox.checked) { onThetaCapture(); update(); }
onLockChange(m, checked, g, st) ==
    IF checked THEN update(m, g, onThetaCapture(m, checked, st)) ELSE st

\* The handler-local view of binding m: its sliders and labels, the charts,
\* the map last read by update() and the number of update() calls so far.
Local(m) ==
    [value |-> value[m], label |-> label[m], chart |-> chart,
     lastV |-> lastV[m], nUpdate |-> 0]

IsChecked(m) == m \in DOMAIN locked /\ locked[m]

\* ---------------------------------------------------------- construction
\* if (!window.thetaGrid) window.thetaGrid = Array.from(...)
EnsureGrid(g) == IF g = <<>> THEN MakeGrid ELSE g

\* setupModel(m): createFigure, the sliders, then the initial update().
setupModel(m, g, charts) ==
    LET sl == [i \in 1..Len(Params(m)) |-> createSlider(Params(m)[i])]
        byName(nm) == sl[CHOOSE i \in 1..Len(sl) : sl[i].id[1] = nm]
        st0 == [value |-> [nm \in Names(m) |-> byName(nm).value],
                label |-> [nm \in Names(m) |-> byName(nm).label],
                chart |-> [charts EXCEPT ![ContainerOf(m)] = createFigure(g)],
                lastV |-> <<>>, nUpdate |-> 0]
    IN  update(m, g, st0)

\* The event handled last: the binding, the kind of event, the control, the
\* position chosen, whether the lock was checked as the listeners ran, the
\* binding's slider values before the event, and the update() calls it made.
NoEvent == [fam |-> "none", kind |-> "load", name |-> "none", x |-> 0,
            checked |-> FALSE, before |-> <<>>, nUpdate |-> 0]

InitUI(ms) ==
    /\ models = ms
    /\ thetaGrid = EnsureGrid(<<>>)
    /\ LET blank == [c \in {ContainerOf(m) : m \in ms} |-> <<>>]
           built == [m \in ms |-> setupModel(m, thetaGrid, blank)]
       IN  /\ value = [m \in ms |-> built[m].value]
           /\ label = [m \in ms |-> built[m].label]
           /\ chart = [c \in DOMAIN blank |->
                         built[CHOOSE m \in ms : ContainerOf(m) = c].chart[c]]
           /\ lastV = [m \in ms |-> built[m].lastV]
    /\ locked = [m \in {k \in ms : HasLock(k)} |-> FALSE]
    /\ ev = NoEvent
    /\ n = 0

Init == InitUI(ProgramFam) /\ probe = <<>>

\* ----------------------------------------------------------------- events
Commit(m, st) ==
    /\ value' = [value EXCEPT ![m] = st.value]
    /\ label' = [label EXCEPT ![m] = st.label]
    /\ chart' = st.chart
    /\ lastV' = [lastV EXCEPT ![m] = st.lastV]

\* The user drags slider `name` of binding m to xv: the control takes the
\* value and an 'input' event is dispatched at it.
SliderInput(m, name, xv) ==
    /\ xv # value[m][name]
    /\ \E st1 \in {RunAll(DispatchOrder(Listeners(m, name)), m, name,
                            IsChecked(m), thetaGrid,
                            [Local(m) EXCEPT
                                !.value = [@ EXCEPT ![name] = xv]])} :
           /\ Commit(m, st1)
           /\ ev' = [fam |-> m, kind |-> "input", name |-> name, x |-> xv,
                     checked |-> IsChecked(m), before |-> value[m],
                     nUpdate |-> st1.nUpdate]
    /\ UNCHANGED <<models, thetaGrid, locked, probe>>

\* The user checks the lock checkbox: 'change' with lockCheckbox.checked true
LockOn(m) ==
    /\ m \in DOMAIN locked /\ ~locked[m]
    /\ locked' = [locked EXCEPT ![m] = TRUE]
    /\ \E st1 \in {onLockChange(m, TRUE, thetaGrid, Local(m))} :
           /\ Commit(m, st1)
           /\ ev' = [fam |-> m, kind |-> "lockOn", name |-> "lock", x |-> 0,
                     checked |-> TRUE, before |-> value[m],
                     nUpdate |-> st1.nUpdate]
    /\ UNCHANGED <<models, thetaGrid, probe>>

\* The user unchecks the lock checkbox: 'change' with lockCheckbox.checked false
LockOff(m) ==
    /\ m \in DOMAIN locked /\ locked[m]
    /\ locked' = [locked EXCEPT ![m] = FALSE]
    /\ \E st1 \in {onLockChange(m, FALSE, thetaGrid, Local(m))} :
           /\ Commit(m, st1)
           /\ ev' = [fam |-> m, kind |-> "lockOff", name |-> "lock", x |-> 0,
                     checked |-> FALSE, before |-> value[m],
                     nUpdate |-> st1.nUpdate]
    /\ UNCHANGED <<models, thetaGrid, probe>>

\* One event is handled to completion at a time; the model stops after
\* MaxEvents events.
Tick == n < MaxEvents /\ n' = n + 1

Next ==
    \/ \E m \in models : \E name \in Names(m) : \E xv \in InputValues(name) :
          Tick /\ SliderInput(m, name, xv)
    \/ \E m \in models : Tick /\ LockOn(m)
    \/ \E m \in models : Tick /\ LockOff(m)

Spec == Init /\ [][Next]_vars

\* setupModel applied to the parameter sets that lack ability or difficulty,
\* beside the 2PL and 4PL bindings of the script
InitHarness == InitUI({"2PL", "4PL"} \cup HarnessFam) /\ probe = <<>>

SpecHarness == InitHarness /\ [][Next]_vars

\* One binding of the page alone, with no limit on the number of events:
\* every sequence of ability inputs, difficulty inputs and lock toggles.
InitDeep == \E m \in ProgramFam : InitUI({m}) /\ probe = <<>>

NextDeep ==
    \/ \E m \in models : \E name \in {"theta", "b"} :
          \E xv \in InputValues(name) :
              SliderInput(m, name, xv) /\ UNCHANGED n
    \/ \E m \in models : LockOn(m) /\ UNCHANGED n
    \/ \E m \in models : LockOff(m) /\ UNCHANGED n

SpecDeep == InitDeep /\ [][NextDeep]_vars

\* ------------------------------------- direct calls of the curve model
\* Arguments the functions are evaluated on (slider positions, grid points
\* and, for c and d, also values no slider offers; for theta also 40 and the
\* two abilities either side of the one where logistic reaches 1.0 at a = 1).
ProbeTheta ==
    {-4 * ThetaDen, -15 * (ThetaDen \div StepDen), 0, ThetaDen, 4 * ThetaDen,
     MakeGrid[2], MakeGrid[200], 40 * ThetaDen,
     OneFrom \div ADen, OneFrom \div ADen + 1}
ProbeA == {ADen \div 10, ADen, 2 * ADen, 3 * ADen}
ProbeB == {-3 * ThetaDen, 0, 11 * (ThetaDen \div StepDen), 3 * ThetaDen}
ProbeC == {0, 20 * (ProbDen \div 100), 30 * (ProbDen \div 100)}
ProbeD == {0, 25 * (ProbDen \div 100), 30 * (ProbDen \div 100),
           90 * (ProbDen \div 100), ProbDen}

\* icc1PL, icc2PL, icc3PL and icc4PL called on the same arguments
EvalICC(theta, a, b, c, d) ==
    /\ probe = <<>>
    /\ probe' = [op |-> "icc", theta |-> theta, a |-> a, b |-> b, c |-> c,
                 d |-> d,
                 y1 |-> icc1PL(theta, b), y2 |-> icc2PL(theta, a, b),
                 y3 |-> icc3PL(theta, a, b, c),
                 y4 |-> icc4PL(theta, a, b, c, Dec(d))]
    /\ UNCHANGED uiVars

\* The 4PL binding's computeCurve and computePoint called on a value map v
Eval4PL(v) ==
    /\ probe = <<>>
    /\ probe' = [op |-> "4PL", v |-> v,
                 curve |-> computeCurve("4PL", v, thetaGrid),
                 point |-> computePoint("4PL", v)]
    /\ UNCHANGED uiVars

NextPure ==
    \/ \E theta \in ProbeTheta, a \in ProbeA, b \in ProbeB, c \in ProbeC,
          d \in ProbeD : EvalICC(theta, a, b, c, d)
    \/ \E theta \in {0, 4 * ThetaDen, 40 * ThetaDen}, a \in {ADen, 3 * ADen},
          b \in {0, ThetaDen}, c \in ProbeC, d \in ProbeD :
          Eval4PL([nm \in Names("4PL") |->
                     CASE nm = "theta" -> theta [] nm = "a" -> a
                       [] nm = "b" -> b [] nm = "c" -> c [] nm = "d" -> d])

SpecPure == Init /\ [][NextPure]_vars

\* The bindings' events, and direct calls of the curve model made at load
\* time (before any event); after a direct call nothing else happens.
NextBoth ==
    \/ probe = <<>> /\ Next
    \/ n = 0 /\ NextPure

SpecBoth == Init /\ [][NextBoth]_vars

\* ============================================================ properties
\* The slider coupled to `name` by the lock, and that partner's range.
Partner(name) == IF name = "theta" THEN "b" ELSE "theta"

LockedInput ==
    ev.kind = "input" /\ ev.checked /\ ev.name \in {"theta", "b"}

\* What a chart shows when it agrees with the value map v of binding m.
Rendered(m, v) ==
    [y |-> computeCurve(m, v, thetaGrid),
     mx |-> v["theta"], my |-> computePoint(m, v).y,
     x0 |-> v["theta"], x1 |-> v["theta"]]

\* C1: in an input event on the ability or difficulty slider with the lock
\* checked, the value map update() read holds the fired slider's new value and
\* the partner's value as the synchronization wrote it, although the slider's
\* own listener was registered before the synchronization listener.
C1_SyncBeforeUpdate ==
    LockedInput =>
        LET m == ev.fam
            pn == Partner(ev.name)
            pp == ParamOf(m, pn)
        IN  /\ Listeners(m, ev.name)[1].fn = "onInput"
            /\ lastV[m][ev.name] = ev.x
            /\ lastV[m][pn] = Min(pp.max, Max(pp.min, ev.x))
            /\ lastV[m] = value[m]

\* A locked input event whose synchronization changed the partner.
C1_Witness ==
    /\ LockedInput
    /\ Len(Listeners(ev.fam, ev.name)) = 2
    /\ ~Listeners(ev.fam, ev.name)[1].capture
    /\ ev.before[Partner(ev.name)] # value[ev.fam][Partner(ev.name)]
    /\ lastV[ev.fam][Partner(ev.name)] = value[ev.fam][Partner(ev.name)]

\* C2: with the lock checked, an input event setting ability to t leaves
\* ability at t and sets difficulty to min(bmax, max(bmin, t)); one setting
\* difficulty to b leaves difficulty at b and sets ability to
\* min(thetaMax, max(thetaMin, b)). Ability 2 gives difficulty 2, ability 4
\* gives difficulty 3.
C2_LockedCopy ==
    LockedInput =>
        LET m == ev.fam
            pn == Partner(ev.name)
            pp == ParamOf(m, pn)
        IN  /\ value[m][ev.name] = ev.x
            /\ value[m][pn] = Min(pp.max, Max(pp.min, ev.x))
            /\ (ev.name = "theta" /\ ev.x = 2 * ThetaDen)
                    => value[m]["b"] = 2 * ThetaDen
            /\ (ev.name = "theta" /\ ev.x = 4 * ThetaDen)
                    => value[m]["b"] = 3 * ThetaDen

\* Ability was set to 4 with the lock on, and difficulty became 3.
C2_Witness ==
    /\ LockedInput /\ ev.name = "theta" /\ ev.x = 4 * ThetaDen
    /\ value[ev.fam]["b"] = 3 * ThetaDen
    /\ ev.before["b"] # 3 * ThetaDen

\* C3: when the lock is checked, the same handler sets difficulty to
\* clamp(ability, bmin, bmax), leaves ability as it was, and then calls
\* update(), so the chart shows the post-sync values.
C3_LockOnSync ==
    ev.kind = "lockOn" =>
        LET m == ev.fam
            pb == ParamOf(m, "b")
        IN  /\ locked[m]
            /\ value[m]["theta"] = ev.before["theta"]
            /\ value[m]["b"] = Min(pb.max, Max(pb.min, ev.before["theta"]))
            /\ \A k \in Names(m) \ {"b"} : value[m][k] = ev.before[k]
            /\ ev.nUpdate >= 1
            /\ lastV[m] = value[m]
            /\ chart[ContainerOf(m)] = Rendered(m, value[m])

\* The lock was checked while difficulty differed from the clamped ability.
C3_Witness ==
    /\ ev.kind = "lockOn"
    /\ ev.before["b"] # value[ev.fam]["b"]
    /\ ev.before["theta"] # ev.before["b"]
    /\ value[ev.fam]["b"] # value[ev.fam]["theta"]

\* The ICC of binding m at ability t with difficulty b and the binding's
\* other slider values.
ICCAt(m, t, b) ==
    CASE m = "1PL" -> icc1PL(t, b)
      [] m = "2PL" -> icc2PL(t, value[m]["a"], b)
      [] m = "3PL" -> icc3PL(t, value[m]["a"], b, value[m]["c"])
      [] m = "4PL" -> icc4PL(t, value[m]["a"], b, value[m]["c"],
                           Dec(value[m]["d"]))

\* C4: after construction and after every event's handler, the chart of the
\* binding concerned agrees with its sliders: trace 0 is computeCurve of the
\* current values over the 400 grid points, trace 1 is (theta, P(theta)) and
\* the vertical line is at theta. After a locked ability change to 2 the point
\* is the ICC at theta = 2 with difficulty 2.
C4_ChartAgrees ==
    \A m \in models :
        (ev.kind = "load" \/ ev.fam = m) =>
            /\ chart[ContainerOf(m)] = Rendered(m, value[m])
            /\ Len(chart[ContainerOf(m)].y) = GridLen
            /\ (LockedInput /\ ev.name = "theta" /\ ev.x = 2 * ThetaDen)
                  => /\ chart[ContainerOf(m)].mx = 2 * ThetaDen
                     /\ chart[ContainerOf(m)].my
                            = ICCAt(m, 2 * ThetaDen, 2 * ThetaDen)

\* Ability was set to 2 with the lock on while difficulty was elsewhere, and
\* the vertical line moved to 2.
C4_Witness ==
    /\ LockedInput /\ ev.name = "theta" /\ ev.x = 2 * ThetaDen
    /\ ev.before["b"] # 2 * ThetaDen
    /\ chart[ContainerOf(ev.fam)].x0 = 2 * ThetaDen

\* The declared range of each parameter, in the parameter's unit.
RangeLo(name) ==
    CASE name = "theta" -> -4 * ThetaDen
      [] name = "b" -> -3 * ThetaDen
      [] name = "a" -> ADen \div 10
      [] name = "c" -> 0
      [] name = "d" -> 65 * (ProbDen \div 100)
RangeHi(name) ==
    CASE name = "theta" -> 4 * ThetaDen
      [] name = "b" -> 3 * ThetaDen
      [] name = "a" -> 3 * ADen
      [] name = "c" -> 35 * (ProbDen \div 100)
      [] name = "d" -> ProbDen

\* C5: every slider value of every binding lies within the declared range of
\* its parameter (theta in [-4, 4], b in [-3, 3], a in [0.1, 3], c in
\* [0, 0.35], d in [0.65, 1]), the value the lock writes included, and every
\* default lies within its range.
C5_ValuesInRange ==
    \A m \in models : \A k \in Names(m) :
        /\ RangeLo(k) <= value[m][k] /\ value[m][k] <= RangeHi(k)
        /\ ParamOf(m, k).min = RangeLo(k) /\ ParamOf(m, k).max = RangeHi(k)
        /\ RangeLo(k) <= ParamOf(m, k).defaultValue
        /\ ParamOf(m, k).defaultValue <= RangeHi(k)

\* The lock wrote the clamped bound 3 into difficulty when ability went to 4.
C5_Witness ==
    /\ LockedInput /\ ev.name = "theta" /\ ev.x = RangeHi("theta")
    /\ value[ev.fam]["b"] = RangeHi("b")
    /\ ev.before["b"] < RangeHi("b")

\* C6: on every value map v, the 4PL binding's computeCurve and computePoint
\* both evaluate icc4PL with d_eff = max(v.d, v.c + 1e-6), never with a d
\* below c + 1e-6, so d_eff >= c and curve and point use the same d_eff (where
\* theta is a grid point, the point lies on the curve); for c = 0.3, d = 0.25
\* the effective d is 0.3 + 1e-6. icc4PL itself does not clamp: called with
\* d < c it returns values below c.
C6_EffectiveD ==
    /\ probe # <<>> /\ probe.op = "4PL" =>
        LET v == probe.v
            sum == DblAdd(Dbl(v["c"]), Dbl(Eps))
            dEff == IF DblLess(Dbl(v["d"]), sum)
                    THEN SumEps(v["c"]) ELSE Dec(v["d"])
        IN  /\ dEff.k = IF v["d"] >= v["c"] + Eps THEN v["d"] ELSE v["c"] + Eps
            /\ dEff.k >= v["c"] /\ ~DblLess(Bits(dEff), Dbl(v["c"]))
            /\ \A k \in 1..GridLen :
                  probe.curve[k]
                     = icc4PL(thetaGrid[k], v["a"], v["b"], v["c"], dEff)
            /\ probe.point.x = v["theta"]
            /\ probe.point.y
                  = icc4PL(v["theta"], v["a"], v["b"], v["c"], dEff)
            /\ \A k \in 1..GridLen :
                  thetaGrid[k] = v["theta"] => probe.point.y = probe.curve[k]
            /\ (v["c"] = 300000 /\ v["d"] = 250000) =>
                  dEff.k = 300001 /\ Bits(dEff) = sum
    /\ probe # <<>> /\ probe.op = "icc" /\ probe.d < probe.c =>
        /\ probe.y4.v = probe.c * LOne
                + (probe.d - probe.c) * logistic(probe.a * (probe.theta - probe.b))
        /\ logistic(probe.a * (probe.theta - probe.b)) > 0
              => probe.y4.v < probe.c * LOne

\* The 4PL callbacks were called with c = 0.3 and d = 0.25 at theta = 4, the
\* last grid point.
C6_Witness ==
    /\ probe # <<>> /\ probe.op = "4PL"
    /\ probe.v["c"] = 300000 /\ probe.v["d"] = 250000
    /\ probe.v["theta"] = thetaGrid[GridLen]
    /\ probe.point.y = probe.curve[GridLen]

\* C7: an event on a control of one binding leaves the slider values, the
\* labels, the lock state and the chart of every other binding unchanged, and
\* no event changes the shared sample grid.
C7_FamiliesIndependent ==
    [][/\ thetaGrid' = thetaGrid
       /\ models' = models
       /\ \A m \in models :
            m # ev'.fam =>
                /\ value'[m] = value[m]
                /\ label'[m] = label[m]
                /\ lastV'[m] = lastV[m]
                /\ m \in DOMAIN locked => locked'[m] = locked[m]
                /\ chart'[ContainerOf(m)] = chart[ContainerOf(m)]]_vars

\* An input event of the 2PL binding was handled after the 1PL binding's
\* ability had been moved, and the 1PL chart still shows the 1PL sliders.
C7_Witness ==
    /\ ev.fam = "2PL" /\ ev.kind = "input"
    /\ value["1PL"]["theta"] # 0
    /\ value["2PL"]["theta"] # value["1PL"]["theta"]
    /\ chart[ContainerOf("1PL")] # chart[ContainerOf("2PL")]
    /\ chart[ContainerOf("1PL")] = Rendered("1PL", value["1PL"])

\* The parameter set of binding m lacks ability or lacks difficulty.
LacksPair(m) == ~({"theta", "b"} \subseteq Names(m))

\* C8: a binding whose parameter set lacks ability or difficulty has no lock
\* checkbox and no synchronization listener, and an input event on any of its
\* sliders changes only that slider's value; in every binding an input event
\* on a slider other than ability and difficulty (a, c, d) changes neither
\* ability nor difficulty, whether the lock is on or off.
C8_NoCouplingWithoutPair ==
    /\ \A m \in models :
          LacksPair(m) =>
              /\ m \notin DOMAIN locked
              /\ \A nm \in Names(m) :
                    \A i \in 1..Len(Listeners(m, nm)) :
                        ~Listeners(m, nm)[i].capture
    /\ (ev.kind = "input" /\ LacksPair(ev.fam)) =>
          /\ value[ev.fam][ev.name] = ev.x
          /\ \A k \in Names(ev.fam) \ {ev.name} :
                value[ev.fam][k] = ev.before[k]
    /\ (ev.kind = "input" /\ ev.name \in {"a", "c", "d"}) =>
          \A k \in Names(ev.fam) \cap {"theta", "b"} :
                value[ev.fam][k] = ev.before[k]

\* An input event moved the ability slider of the binding without difficulty.
C8_Witness ==
    /\ ev.kind = "input" /\ ev.fam = "noB" /\ ev.name = "theta"
    /\ value["noB"]["theta"] = ev.x
    /\ ev.before["theta"] # ev.x
    /\ "noTheta" \in models

\* C9: the label beside each slider shows the slider's current value: after
\* construction, after the slider's own input events, and for the partner
\* rewritten by the lock synchronization.
C9_LabelShowsValue ==
    \A m \in models : \A k \in Names(m) : label[m][k] = value[m][k]

\* A locked input event rewrote the partner slider and its label.
C9_Witness ==
    /\ LockedInput
    /\ ev.before[Partner(ev.name)] # value[ev.fam][Partner(ev.name)]
    /\ label[ev.fam][Partner(ev.name)] = value[ev.fam][Partner(ev.name)]
    /\ label[ev.fam][ev.name] = ev.x

\* C10: the four ICC functions are nested: icc1PL(theta, b) =
\* icc2PL(theta, 1, b), icc2PL(theta, a, b) = icc3PL(theta, a, b, 0) and
\* icc2PL(theta, a, b) = icc4PL(theta, a, b, 0, 1).
C10_Nested ==
    probe # <<>> /\ probe.op = "icc" =>
        /\ probe.a = ADen => probe.y1 = probe.y2
        /\ probe.y1 = icc2PL(probe.theta, ADen, probe.b)
        /\ probe.c = 0 => probe.y2 = probe.y3
        /\ probe.y2 = icc3PL(probe.theta, probe.a, probe.b, 0)
        /\ (probe.c = 0 /\ probe.d = ProbDen)
              => probe.y4 = [v |-> probe.y2, off |-> 0]
        /\ icc4PL(probe.theta, probe.a, probe.b, 0, Dec(ProbDen))
              = [v |-> probe.y2, off |-> 0]

\* The four functions were called with a = 2, c = 0, d = 1 at an ability away
\* from the difficulty, where the curve is neither 0 nor 1.
C10_Witness ==
    /\ probe # <<>> /\ probe.op = "icc"
    /\ probe.a = 2 * ADen /\ probe.c = 0 /\ probe.d = ProbDen
    /\ probe.theta # probe.b /\ probe.b # 0
    /\ probe.y2 = probe.y3 /\ probe.y4 = [v |-> probe.y3, off |-> 0]
    /\ probe.y2 > 0 /\ probe.y2 < ProbDen * LOne

\* The probability 1 in the unit of ICC values.
POne == ProbDen * LOne

\* The floor c and the ceiling d of binding m's curve (0 and 1 where the
\* family has no such parameter), in the unit of ICC values.
LowerOf(m) == IF "c" \in Names(m) THEN value[m]["c"] * LOne ELSE 0
UpperOf(m) == IF "d" \in Names(m) THEN value[m]["d"] * LOne ELSE POne

\* Every curve sample and the point of figure fig lie in [lo, hi] within [0, 1].
PushedWithin(fig, lo, hi) ==
    /\ 0 <= lo /\ hi <= POne
    /\ \A k \in 1..Len(fig.y) : lo <= fig.y[k] /\ fig.y[k] <= hi
    /\ lo <= fig.my /\ fig.my <= hi

\* A value of icc4PL against a bound given in the unit of ICC values
AtLeast4(y, lo) == y.v > lo \/ (y.v = lo /\ y.off >= 0)
AtMost4(y, hi) == y.v < hi \/ (y.v = hi /\ y.off <= 0)

\* PushedWithin for the 4PL figure
PushedWithin4(fig, lo, hi) ==
    /\ 0 <= lo /\ hi <= POne
    /\ \A k \in 1..Len(fig.y) : AtLeast4(fig.y[k], lo) /\ AtMost4(fig.y[k], hi)
    /\ AtLeast4(fig.my, lo) /\ AtMost4(fig.my, hi)

\* What the four functions give for a direct call, apart from the upper bound
\* of icc4PL: icc1PL and icc2PL in [0, 1], icc3PL in [c, 1], icc4PL at or
\* above c.
ProbeInRange ==
    /\ 0 <= probe.y1 /\ probe.y1 <= POne
    /\ 0 <= probe.y2 /\ probe.y2 <= POne
    /\ (0 <= probe.c /\ probe.c <= ProbDen) =>
          probe.c * LOne <= probe.y3 /\ probe.y3 <= POne
    /\ (0 <= probe.c /\ probe.c <= probe.d /\ probe.d <= ProbDen) =>
          AtLeast4(probe.y4, probe.c * LOne)

\* Every curve sample and point pushed to a chart lies in the chart's y range
\* [0, 1] (for 3PL at or above c, for 4PL within [c, d]).
ChartsInRange ==
    \A m \in models :
        (ev.kind = "load" \/ ev.fam = m) =>
            IF m = "4PL"
            THEN PushedWithin4(chart[ContainerOf(m)], LowerOf(m), UpperOf(m))
            ELSE PushedWithin(chart[ContainerOf(m)], LowerOf(m), UpperOf(m))

\* C11 as stated: with a logistic value in [0, 1] and 0 <= c <= d <= 1,
\* icc4PL lies in [c, d], icc3PL in [c, 1], icc1PL and icc2PL in [0, 1]; hence
\* every curve sample and every point a binding pushes to its chart lies in
\* the chart's y range [0, 1]. It fails for icc4PL(40, 1, 0, 0.3, 0.9), which
\* is the double next above 0.9.
C11_InRange ==
    /\ probe # <<>> /\ probe.op = "icc" =>
        LET l == logistic(probe.a * (probe.theta - probe.b))
        IN  (0 <= l /\ l <= LOne) =>
              /\ ProbeInRange
              /\ (0 <= probe.c /\ probe.c <= probe.d /\ probe.d <= ProbDen) =>
                    AtMost4(probe.y4, probe.d * LOne)
    /\ probe = <<>> => ChartsInRange

\* C11, amended: with 0 <= c <= d <= 1, icc1PL and icc2PL lie in [0, 1],
\* icc3PL in [c, 1], and icc4PL in [c, d] whenever logistic returns less than
\* 1.0; where logistic returns exactly 1.0 (a * (theta - b) from 36.7368 on) the
\* rounded sum c + (d - c) is d or a double next to d and stays within
\* [c, 1]. The sliders keep |a * (theta - b)| at or below 21, so every curve
\* sample and every point a binding pushes to its chart lies in the chart's y
\* range [0, 1] (for 3PL at or above c, for 4PL within [c, d]).
C11_InRangeBelowOne ==
    /\ probe # <<>> /\ probe.op = "icc" =>
        LET x == probe.a * (probe.theta - probe.b)
        IN  /\ ProbeInRange
            /\ (0 <= probe.c /\ probe.c <= probe.d /\ probe.d <= ProbDen) =>
                  /\ ~logisticIsOne(x) => AtMost4(probe.y4, probe.d * LOne)
                  /\ logisticIsOne(x) =>
                        /\ probe.y4.v = probe.d * LOne
                        /\ AtMost4(probe.y4, POne)
    /\ probe = <<>> =>
          /\ ChartsInRange
          /\ \A m \in models :
                LET a == IF "a" \in Names(m) THEN value[m]["a"] ELSE ADen
                IN  /\ a * (4 * ThetaDen - value[m]["b"]) <= 21 * XDen
                    /\ a * (-4 * ThetaDen - value[m]["b"]) >= -21 * XDen
          /\ ~logisticIsOne(21 * XDen)

\* icc4PL was called with theta = 40, a = 1, b = 0, c = 0.3 and d = 0.9:
\* logistic is exactly 1.0 and the sum is the double next above 0.9, below 1.
C11_Witness ==
    /\ probe # <<>> /\ probe.op = "icc"
    /\ probe.theta = 40 * ThetaDen /\ probe.a = ADen /\ probe.b = 0
    /\ probe.c = 30 * (ProbDen \div 100) /\ probe.d = 90 * (ProbDen \div 100)
    /\ logisticIsOne(probe.a * (probe.theta - probe.b))
    /\ probe.y4 = [v |-> probe.d * LOne, off |-> 1]
    /\ probe.y3 = POne

\* The sequence g has the shape the sample grid is meant to have: 400 points,
\* the i-th (i = 0 .. 399) at -4 + 8i/399, so from -4 to 4, strictly
\* increasing and equally spaced.
GridShape(g) ==
    /\ Len(g) = 400
    /\ g[1] = -4 * ThetaDen /\ g[400] = 4 * ThetaDen
    /\ \A k \in 1..400 : 399 * g[k] = (-4 * 399 + 8 * (k - 1)) * ThetaDen
    /\ \A k \in 1..399 : g[k] < g[k + 1] /\ g[k + 1] - g[k] = g[2] - g[1]

\* Trace 0 of binding m's chart has one value per grid point, in grid order.
CurveOnGrid(m, fig, g) ==
    /\ Len(fig.y) = Len(g)
    /\ \A k \in 1..Len(g) : fig.y[k] = ICCAt(m, g[k], value[m]["b"])

\* C12: the shared sample grid has exactly 400 points, the i-th at
\* -4 + 8i/399 (first -4, last 4), strictly increasing and equally spaced; it
\* is created once (a grid already present is kept) and is the same sequence
\* in every reachable state; every curve drawn has one value per grid point,
\* in grid order.
C12_GridFixed ==
    /\ GridShape(thetaGrid)
    /\ thetaGrid = MakeGrid
    /\ EnsureGrid(thetaGrid) = thetaGrid
    /\ EnsureGrid(<<0, 1>>) = <<0, 1>>
    /\ \A m \in models :
          (ev.kind = "load" \/ ev.fam = m) =>
              CurveOnGrid(m, chart[ContainerOf(m)], thetaGrid)

\* After an input event the 3PL chart was redrawn over the unchanged grid.
C12_Witness ==
    /\ ev.kind = "input" /\ ev.fam = "3PL" /\ n >= 2
    /\ thetaGrid[1] = -4 * ThetaDen /\ thetaGrid[GridLen] = 4 * ThetaDen
    /\ Len(chart[ContainerOf("3PL")].y) = GridLen
    /\ chart[ContainerOf("3PL")].y[1] < chart[ContainerOf("3PL")].y[GridLen]

\* C13: whenever a handler has completed and the lock checkbox of a binding is
\* checked, its difficulty is min(bmax, max(bmin, ability)), whatever sequence
\* of slider inputs and lock toggles led there; so ability and difficulty are
\* equal whenever ability lies in [-3, 3], and after a locked difficulty input
\* ability equals difficulty exactly.
C13_LockInvariant ==
    \A m \in DOMAIN locked :
        locked[m] =>
            LET pb == ParamOf(m, "b")
                t == value[m]["theta"]
                b == value[m]["b"]
            IN  /\ b = Min(pb.max, Max(pb.min, t))
                /\ (-3 * ThetaDen <= t /\ t <= 3 * ThetaDen) => t = b
                /\ (ev.fam = m /\ LockedInput /\ ev.name = "b")
                        => t = b /\ b = ev.x

\* With the lock checked, difficulty was dragged and ability followed it.
C13_Witness ==
    /\ LockedInput /\ ev.name = "b" /\ locked[ev.fam]
    /\ ev.before["theta"] # ev.x
    /\ value[ev.fam]["theta"] = ev.x /\ value[ev.fam]["b"] = ev.x

\* C14: every event is handled with at most one update(): a slider input
\* calls it exactly once, checking the lock calls it exactly once, unchecking
\* the lock calls it not at all and changes no slider value. Writing the
\* partner's value runs neither the partner's own listener nor its
\* synchronization listener: the fired slider keeps the value the user gave
\* it, and the listeners of one event are a finite list run once each.
C14_OneUpdate ==
    /\ ev.kind = "input" =>
          /\ ev.nUpdate = 1
          /\ value[ev.fam][ev.name] = ev.x
          /\ Len(Listeners(ev.fam, ev.name)) <= 2
          /\ \A k \in Names(ev.fam) \ {ev.name, Partner(ev.name)} :
                value[ev.fam][k] = ev.before[k]
    /\ ev.kind = "lockOn" => ev.nUpdate = 1
    /\ ev.kind = "lockOff" =>
          /\ ev.nUpdate = 0
          /\ value[ev.fam] = ev.before
          /\ lastV[ev.fam] = ev.before

\* The lock was unchecked while ability and difficulty were held together.
C14_Witness ==
    /\ ev.kind = "lockOff" /\ ev.nUpdate = 0 /\ ~locked[ev.fam]
    /\ value[ev.fam]["b"] = value[ev.fam]["theta"]

\* C15: while the lock is unchecked, an input on the ability slider leaves
\* difficulty unchanged and an input on the difficulty slider leaves ability
\* unchanged, also after the lock was checked and unchecked again; the two
\* values may then differ.
C15_UnlockedIndependent ==
    (ev.kind = "input" /\ ~ev.checked) =>
        /\ value[ev.fam][ev.name] = ev.x
        /\ \A k \in Names(ev.fam) \ {ev.name} : value[ev.fam][k] = ev.before[k]

\* Ability and difficulty stood at one value other than the default, which
\* only the lock can bring about (no position offered to the user lies on both
\* sliders); the lock is unchecked again, ability was dragged, and difficulty
\* stayed behind.
C15_Witness ==
    /\ ev.kind = "input" /\ ~ev.checked /\ ev.name = "theta"
    /\ InputValues("theta") \cap InputValues("b") = {}
    /\ ev.before["theta"] = ev.before["b"] /\ ev.before["b"] # 0
    /\ value[ev.fam]["b"] = ev.before["b"]
    /\ value[ev.fam]["theta"] # value[ev.fam]["b"]

\* C16: in every state the 4PL binding reaches, d >= c + 1e-6 (d never goes
\* below 0.65 and c never above 0.35), so the effective d of the curve and of
\* the point is the d slider's value, and c < d at every evaluation the page
\* triggers.
C16_ClampInactive ==
    "4PL" \in models =>
        LET v == value["4PL"]
            u == lastV["4PL"]
        IN  /\ v["d"] >= 65 * (ProbDen \div 100)
            /\ v["c"] <= 35 * (ProbDen \div 100)
            /\ v["d"] >= v["c"] + Eps
            /\ u["c"] < u["d"]
            /\ CurveD(u) = Dec(u["d"]) /\ PointD(u) = Dec(u["d"])
            /\ chart[ContainerOf("4PL")].my
                  = icc4PL(u["theta"], u["a"], u["b"], u["c"], Dec(u["d"]))

\* The 4PL binding redrew with c at its largest and d at its smallest.
C16_Witness ==
    /\ ev.fam = "4PL" /\ ev.kind = "input" /\ ev.name \in {"c", "d"}
    /\ lastV["4PL"]["c"] = CParam("4PL").max
    /\ lastV["4PL"]["d"] = DParam("4PL").min
    /\ CurveD(lastV["4PL"]) = Dec(lastV["4PL"]["d"])

=============================================================================
